---- MODULE Spec2Model ----
(***************************************************************************)
(* Environment Loader (src/src/main.rs).                                   *)
(*                                                                         *)
(* One run of `main`: the raw environment is snapshotted, the variables    *)
(* named in `pass` and (when `env_prefix` is set) the variables without    *)
(* the prefix are moved into `passed_variables`, every remaining variable  *)
(* is inspected for a `method::payload` directive and resolved, and the    *)
(* target command is exec'ed with `passed_variables`.                      *)
(*                                                                         *)
(* Strings are sequences of one-character strings, so that `contains`,     *)
(* `split_once`, `starts_with` and `strip_prefix` are computed on the      *)
(* characters.  A HashMap is a function whose DOMAIN is its key set.  An   *)
(* Option is a sequence of length 0 (None) or 1 (Some).                    *)
(***************************************************************************)
EXTENDS Integers, Sequences, FiniteSets, TLC

\* ---------------------------------------------------------------- bounds
\* at most MaxVars variables in the raw environment
MaxVars == 2
\* at most MaxPass `--pass` arguments
MaxPass == 1

\* ------------------------------------------------------- string literals
TagValue == <<"v", "a", "l", "u", "e">>
TagAwsSm == <<"a", "w", "s", "_", "s", "m">>

\* variable names of the enumerated environments
NameX == <<"X">>
NameAX == <<"A", "_", "X">>
NameAAX == <<"A", "_", "A", "_", "X">>
Names == {NameX, NameAX, NameAAX}

\* values of the enumerated environments
ValPlain == <<"p", ":", "q">>
ValValue == <<"v", "a", "l", "u", "e", ":", ":", "b">>
ValValueEmpty == <<"v", "a", "l", "u", "e", ":", ":">>
ValValueTwice == <<"v", "a", "l", "u", "e", ":", ":", "b", ":", ":", "c">>
ValUpper == <<"V", "a", "l", "u", "e", ":", ":", "b">>
ValSpace == <<" ", "v", "a", "l", "u", "e", ":", ":", "b">>
ValSecretS == <<"a", "w", "s", "_", "s", "m", ":", ":", "s">>
ValSecretT == <<"a", "w", "s", "_", "s", "m", ":", ":", "t">>
Values ==
  {ValPlain, ValValue, ValValueEmpty, ValValueTwice, ValUpper, ValSpace,
   ValSecretS, ValSecretT}

\* the settings of --env-prefix: absent, "A_", and the empty string
None == <<>>
Some(x) == <<x>>
PrefixA == <<"A", "_">>
Prefixes == {None, Some(PrefixA), Some(<<>>)}

\* The secret backend: the secret "s" exists with secret string "h"; every
\* other secret id is answered with an error (or has no secret string).
SecretValue == <<"h">>
get_secret_value(secret_id) ==
  IF secret_id = <<"s">> THEN Some(SecretValue) ELSE None

\* --------------------------------------------------------------- HashMap
EmptyMap == [k \in {} |-> <<>>]
remove(m, k) == [x \in DOMAIN m \ {k} |-> m[x]]
insert(m, k, v) == [x \in DOMAIN m \cup {k} |-> IF x = k THEN v ELSE m[x]]

\* ------------------------------------------------------------------- str
\* the positions at which "::" starts
Separators(s) == {i \in 1..(Len(s) - 1) : s[i] = ":" /\ s[i + 1] = ":"}

contains(s) == Separators(s) # {}

\* a split at the LAST "::" (str::rsplit_once)
split_once_last(s) ==
  LET i == CHOOSE j \in Separators(s) : \A k \in Separators(s) : k <= j
  IN  <<SubSeq(s, 1, i - 1), SubSeq(s, i + 2, Len(s))>>

\* split at the FIRST "::" : <<before, after>>
split_once(s) ==
  LET i == CHOOSE j \in Separators(s) : \A k \in Separators(s) : j <= k
  IN  <<SubSeq(s, 1, i - 1), SubSeq(s, i + 2, Len(s))>>

starts_with(s, p) == Len(p) <= Len(s) /\ SubSeq(s, 1, Len(p)) = p

\* the name without any leading occurrence of p (str::trim_start_matches)
RECURSIVE strip_prefix_all(_, _)
strip_prefix_all(s, p) ==
  IF p # <<>> /\ starts_with(s, p)
    THEN strip_prefix_all(SubSeq(s, Len(p) + 1, Len(s)), p)
    ELSE s

\* the name without one leading occurrence of p (called when starts_with)
strip_prefix(s, p) == SubSeq(s, Len(p) + 1, Len(s))

\* ----------------------------------------------------------------- state
VARIABLES
  application,      \* the parsed command line: pass, ignore_missing, env_prefix
  rawenv,           \* the snapshot std::env::vars() took
  variables,        \* the variables still to be classified / resolved
  passed_variables, \* the environment built for the target command
  amazon,           \* Amazon: config and secrets_client (0 is None)
  inflight,         \* the get_secret calls awaiting the backend's response
  pc,               \* position of main
  exit_code,        \* the exit status once pc = "exited"
  launches,         \* number of calls of execvpe
  launched_env,     \* Some(environment given to execvpe)
  origin,           \* for each key of passed_variables, the raw variable
                    \* whose processing inserted it last
  calls,            \* per raw variable, the backend requests sent for it
  configBuilds,     \* number of SdkConfig loads
  clientBuilds,     \* number of Client::new
  clientsUsed       \* the clients that sent a request

vars ==
  <<application, rawenv, variables, passed_variables, amazon, inflight, pc,
    exit_code, launches, launched_env, origin, calls, configBuilds,
    clientBuilds, clientsUsed>>

Environments ==
  UNION {[S -> Values] : S \in {T \in SUBSET Names : Cardinality(T) <= MaxVars}}

PassLists == UNION {[1..n -> Names] : n \in 0..MaxPass}

Init ==
  /\ rawenv \in Environments
  /\ application \in
       [pass : PassLists, ignore_missing : BOOLEAN, env_prefix : Prefixes]
  /\ variables = rawenv
  /\ passed_variables = EmptyMap
  /\ amazon = [config |-> FALSE, secrets_client |-> 0]
  /\ inflight = {}
  /\ pc = "pass"
  /\ exit_code = 0
  /\ launches = 0
  /\ launched_env = None
  /\ origin = EmptyMap
  /\ calls = [n \in DOMAIN rawenv |-> 0]
  /\ configBuilds = 0
  /\ clientBuilds = 0
  /\ clientsUsed = {}


\* ------------------------------------------------- lines 107-116 of main
\* for variable in &application.pass { remove from variables, insert into
\* passed_variables; warn when absent }, from the i-th argument on
RECURSIVE PassLoop(_, _, _)
PassLoop(i, vs, passed) ==
  IF i > Len(application.pass)
    THEN [variables |-> vs, passed_variables |-> passed]
    ELSE
      LET variable == application.pass[i]
      IN  IF variable \in DOMAIN vs
            THEN PassLoop(i + 1, remove(vs, variable),
                          insert(passed, variable, vs[variable]))
            ELSE PassLoop(i + 1, vs, passed)

\* ------------------------------------------------- lines 118-125 of main
\* with a prefix, every variable whose name does not start with it is moved
\* into passed_variables
PrefixLoop(vs, passed) ==
  IF application.env_prefix = None
    THEN [variables |-> vs, passed_variables |-> passed]
    ELSE
      LET prefix == application.env_prefix[1]
          moved == {k \in DOMAIN vs : ~starts_with(k, prefix)}
      IN  [variables |-> [k \in DOMAIN vs \ moved |-> vs[k]],
           passed_variables |->
             [k \in DOMAIN passed \cup moved |->
                IF k \in moved THEN vs[k] ELSE passed[k]]]

\* ---------------------------------------- lines 136-147, 154-165 of main
\* the key under which a resolved value is inserted
OutName(key) ==
  IF application.env_prefix # None
       /\ starts_with(key, application.env_prefix[1])
    THEN strip_prefix(key, application.env_prefix[1])
    ELSE key

\* ------------------------------------------------ lines 173, 181 of main
\* failure branches without the exit, and with an unconditional exit
FailExitsNever == FALSE

FailExitsAlways == TRUE

\* `if !application.ignore_missing { std::process::exit(1) }`
FailExits == ~application.ignore_missing

\* --------------------------------------------------------------- actions
\* the pass loop, were an absent `pass` name fatal
PassThroughStrict ==
  /\ pc = "pass"
  /\ LET r == PassLoop(1, variables, passed_variables)
     IN  /\ variables' = r.variables
         /\ passed_variables' = r.passed_variables
         /\ origin' = [k \in DOMAIN r.passed_variables |-> k]
  /\ IF \E i \in 1..Len(application.pass) :
          application.pass[i] \notin DOMAIN rawenv
       THEN pc' = "exited" /\ exit_code' = 1
       ELSE pc' = "prefix" /\ exit_code' = exit_code
  /\ UNCHANGED <<application, rawenv, amazon, inflight, launches,
                 launched_env, calls, configBuilds, clientBuilds, clientsUsed>>

\* lines 107-116
PassThrough ==
  /\ pc = "pass"
  /\ LET r == PassLoop(1, variables, passed_variables)
     IN  /\ variables' = r.variables
         /\ passed_variables' = r.passed_variables
         /\ origin' = [k \in DOMAIN r.passed_variables |-> k]
  /\ pc' = "prefix"
  /\ UNCHANGED <<application, rawenv, amazon, inflight, exit_code, launches,
                 launched_env, calls, configBuilds, clientBuilds, clientsUsed>>

\* lines 118-127
PrefixFilter ==
  /\ pc = "prefix"
  /\ LET r == PrefixLoop(variables, passed_variables)
     IN  /\ variables' = r.variables
         /\ passed_variables' = r.passed_variables
         /\ origin' = [k \in DOMAIN r.passed_variables |-> k]
  /\ pc' = "resolve"
  /\ UNCHANGED <<application, rawenv, amazon, inflight, exit_code, launches,
                 launched_env, calls, configBuilds, clientBuilds, clientsUsed>>

\* lines 129-130, 186: the next (key, value) of the loop has no "::"
SkipPlain ==
  /\ pc = "resolve"
  /\ \E key \in DOMAIN variables :
       /\ ~contains(variables[key])
       /\ variables' = remove(variables, key)
  /\ UNCHANGED <<application, rawenv, passed_variables, amazon, inflight, pc,
                 exit_code, launches, launched_env, origin, calls,
                 configBuilds, clientBuilds, clientsUsed>>

\* lines 129-148: the "value" method
LoadValue ==
  /\ pc = "resolve"
  /\ \E key \in DOMAIN variables :
       LET value == variables[key]
       IN  /\ contains(value)
           /\ split_once(value)[1] = TagValue
           /\ variables' = remove(variables, key)
           /\ passed_variables' =
                insert(passed_variables, OutName(key), split_once(value)[2])
           /\ origin' = insert(origin, OutName(key), key)
  /\ UNCHANGED <<application, rawenv, amazon, inflight, pc, exit_code,
                 launches, launched_env, calls, configBuilds, clientBuilds,
                 clientsUsed>>

\* lines 179-184: any other method
UnknownMethod ==
  /\ pc = "resolve"
  /\ \E key \in DOMAIN variables :
       LET value == variables[key]
       IN  /\ contains(value)
           /\ split_once(value)[1] \notin {TagValue, TagAwsSm}
           /\ variables' = remove(variables, key)
  /\ IF FailExits
       THEN pc' = "exited" /\ exit_code' = 1
       ELSE pc' = pc /\ exit_code' = exit_code
  /\ UNCHANGED <<application, rawenv, passed_variables, amazon, inflight,
                 launches, launched_env, origin, calls, configBuilds,
                 clientBuilds, clientsUsed>>


\* -------------------------------------------- lines 53-66: get_config
\* the SdkConfig is loaded when there is none yet
ConfigLoaded == IF amazon.config THEN configBuilds ELSE configBuilds + 1

\* --------------------------------------- line 88 of Amazon::get_secret
\* the client stored only after a successful response (`?` before line 88)
StoredClientOnSuccess(request, response) ==
  IF response = None THEN amazon.secrets_client ELSE request.client

\* `self.secrets_client = Some(new_secrets_client)`, before the response is
\* looked at
StoredClient(request, response) == request.client

\* lines 149-152 and 68-86: the "aws_sm" method, up to the `.send().await`
\* of the request
LoadAwsSm ==
  /\ pc = "resolve"
  /\ \E key \in DOMAIN variables :
       LET value == variables[key]
           fresh == amazon.secrets_client = 0
           client == IF fresh THEN clientBuilds + 1 ELSE amazon.secrets_client
       IN  /\ contains(value)
           /\ split_once(value)[1] = TagAwsSm
           /\ variables' = remove(variables, key)
           /\ configBuilds' = IF fresh THEN ConfigLoaded ELSE configBuilds
           /\ amazon' = IF fresh THEN [amazon EXCEPT !.config = TRUE] ELSE amazon
           /\ clientBuilds' = IF fresh THEN clientBuilds + 1 ELSE clientBuilds
           /\ inflight' =
                inflight \cup
                  {[key |-> key, secret_name |-> split_once(value)[2],
                    client |-> client, fresh |-> fresh]}
           /\ clientsUsed' = clientsUsed \cup {client}
           /\ calls' = [calls EXCEPT ![key] = @ + 1]
  /\ pc' = "await"
  /\ UNCHANGED <<application, rawenv, passed_variables, exit_code, launches,
                 launched_env, origin>>

\* the return of get_secret, were a failed request sent a second time
SecretReturnRetry ==
  /\ pc = "await"
  /\ \E request \in inflight :
       LET response == get_secret_value(request.secret_name)
       IN  /\ amazon' =
                IF request.fresh
                  THEN [amazon EXCEPT
                          !.secrets_client = StoredClient(request, response)]
                  ELSE amazon
           /\ IF response # None
                THEN /\ passed_variables' =
                          insert(passed_variables, OutName(request.key),
                                 response[1])
                     /\ origin' = insert(origin, OutName(request.key), request.key)
                     /\ inflight' = inflight \ {request}
                     /\ pc' = "resolve"
                     /\ UNCHANGED <<exit_code, calls, clientsUsed>>
                ELSE IF calls[request.key] < 2
                  THEN /\ calls' = [calls EXCEPT ![request.key] = @ + 1]
                       /\ inflight' =
                            (inflight \ {request}) \cup
                              {[request EXCEPT !.fresh = FALSE]}
                       /\ clientsUsed' = clientsUsed \cup {request.client}
                       /\ UNCHANGED <<passed_variables, origin, pc, exit_code>>
                  ELSE /\ inflight' = inflight \ {request}
                       /\ UNCHANGED <<passed_variables, origin, calls,
                                      clientsUsed>>
                       /\ IF FailExits
                            THEN pc' = "exited" /\ exit_code' = 1
                            ELSE pc' = "resolve" /\ exit_code' = exit_code
  /\ UNCHANGED <<application, rawenv, variables, launches, launched_env,
                 configBuilds, clientBuilds>>

\* lines 86-90 and 152-178: the response of the backend arrives, get_secret
\* returns, and main inserts the secret or handles the failure
SecretReturn ==
  /\ pc = "await"
  /\ \E request \in inflight :
       LET response == get_secret_value(request.secret_name)
       IN  /\ inflight' = inflight \ {request}
           /\ amazon' =
                IF request.fresh
                  THEN [amazon EXCEPT
                          !.secrets_client = StoredClient(request, response)]
                  ELSE amazon
           /\ IF response # None
                THEN /\ passed_variables' =
                          insert(passed_variables, OutName(request.key),
                                 response[1])
                     /\ origin' = insert(origin, OutName(request.key), request.key)
                     /\ pc' = "resolve"
                     /\ exit_code' = exit_code
                ELSE /\ UNCHANGED <<passed_variables, origin>>
                     /\ IF FailExits
                          THEN pc' = "exited" /\ exit_code' = 1
                          ELSE pc' = "resolve" /\ exit_code' = exit_code
  /\ UNCHANGED <<application, rawenv, variables, launches, launched_env,
                 calls, configBuilds, clientBuilds, clientsUsed>>

\* lines 189-204: the loop is over; execvpe replaces the process image, or
\* fails (as does an argument or entry that is no C string) and the unwrap
\* panics, which ends the process with status 101
Launch ==
  /\ pc = "resolve"
  /\ variables = EmptyMap
  /\ launches' = launches + 1
  /\ launched_env' = Some(passed_variables)
  /\ \E replaced \in BOOLEAN :
       IF replaced
         THEN pc' = "launched" /\ exit_code' = exit_code
         ELSE pc' = "exited" /\ exit_code' = 101
  /\ UNCHANGED <<application, rawenv, variables, passed_variables, amazon,
                 inflight, origin, calls, configBuilds, clientBuilds,
                 clientsUsed>>

Next ==
  \/ PassThrough
  \/ PrefixFilter
  \/ SkipPlain
  \/ LoadValue
  \/ LoadAwsSm
  \/ SecretReturn
  \/ UnknownMethod
  \/ Launch

Spec == Init /\ [][Next]_vars

\* main runs on one task that the runtime keeps polling, and the backend
\* answers every request: a step that can be taken is taken
FairSpec == Spec /\ WF_vars(Next)


\* ===================================================================
\* The run as a function of the raw environment
\* ===================================================================

\* lines 130-186 for one (key, value) when the process does not exit: what
\* the loop body leaves in passed_variables
Loaded(passed, key, value) ==
  IF ~contains(value)
    THEN passed
    ELSE
      LET load_method == split_once(value)[1]
          remainder == split_once(value)[2]
      IN  IF load_method = TagValue
            THEN insert(passed, OutName(key), remainder)
            ELSE IF load_method = TagAwsSm /\ get_secret_value(remainder) # None
              THEN insert(passed, OutName(key), get_secret_value(remainder)[1])
              ELSE passed

\* lines 129-187: the loop over the remaining variables, run to its end
RECURSIVE LoadAll(_, _)
LoadAll(vs, passed) ==
  IF DOMAIN vs = {}
    THEN passed
    ELSE
      LET key == CHOOSE k \in DOMAIN vs : TRUE
      IN  LoadAll(remove(vs, key), Loaded(passed, key, vs[key]))

\* lines 103-187: passed_variables at line 189 for the raw environment raw
Resolved(raw) ==
  LET p == PassLoop(1, raw, EmptyMap)
      q == PrefixLoop(p.variables, p.passed_variables)
  IN  LoadAll(q.variables, q.passed_variables)

\* ===================================================================
\* Vocabulary of the properties
\* ===================================================================
Separator == <<":", ":">>

InPass(n) == \E i \in 1..Len(application.pass) : application.pass[i] = n

PrefixSet == application.env_prefix # None

HasPrefix(n) == PrefixSet /\ starts_with(n, application.env_prefix[1])

\* a variable that reaches the resolution loop
Candidate(n) ==
  /\ n \in DOMAIN rawenv
  /\ ~InPass(n)
  /\ PrefixSet => HasPrefix(n)

\* the value is `value::X`
IsValueDirective(v) ==
  Len(v) >= 7 /\ SubSeq(v, 1, 7) = TagValue \o Separator

\* the value is `aws_sm::X`
IsSecretDirective(v) ==
  Len(v) >= 8 /\ SubSeq(v, 1, 8) = TagAwsSm \o Separator

\* the X of `value::X` and of `aws_sm::X`
ValueOf(v) == SubSeq(v, 8, Len(v))
SecretOf(v) == SubSeq(v, 9, Len(v))

\* a directive whose secret cannot be resolved, or whose method is unknown
Failing(v) ==
  /\ contains(v)
  /\ ~IsValueDirective(v)
  /\ IsSecretDirective(v) => get_secret_value(SecretOf(v)) = None

\* a directive that resolves, and what it resolves to
Resolves(v) ==
  \/ IsValueDirective(v)
  \/ IsSecretDirective(v) /\ get_secret_value(SecretOf(v)) # None

ResolvedValue(v) ==
  IF IsValueDirective(v) THEN ValueOf(v) ELSE get_secret_value(SecretOf(v))[1]

\* the loop has taken the candidate n and finished with it
Processed(n) ==
  /\ Candidate(n)
  /\ pc \notin {"pass", "prefix"}
  /\ n \notin DOMAIN variables
  /\ \A r \in inflight : r.key # n

\* execvpe has been called; the environment it was given
Launched == launches >= 1
Handed == launched_env[1]

Terminated == pc \in {"launched", "exited"}

\* the keys of passed_variables that the processing of n inserted
EntriesOf(n) == {k \in DOMAIN origin : origin[k] = n}


\* ===================================================================
\* Properties
\* ===================================================================

\* C1: every candidate variable whose value has no "::" is in the
\* environment handed to the launcher, under the same name and with the
\* same value as in the raw environment.
C1_PlainPassedThrough ==
  Launched =>
    \A n \in DOMAIN rawenv :
      (Candidate(n) /\ ~contains(rawenv[n])) =>
        (n \in DOMAIN Handed /\ Handed[n] = rawenv[n])

\* C2: every variable named in `pass` and present in the raw environment
\* has its raw value under its own name in the environment handed to the
\* launcher.
C2_PassKeepsRawValue ==
  Launched =>
    \A n \in DOMAIN rawenv :
      InPass(n) => (n \in DOMAIN Handed /\ Handed[n] = rawenv[n])

\* C3: with a prefix set, every raw variable whose name does not start with
\* the prefix has its raw value under its own name in the environment handed
\* to the launcher.
C3_UnprefixedKeepsRawValue ==
  (Launched /\ PrefixSet) =>
    \A n \in DOMAIN rawenv :
      ~HasPrefix(n) => (n \in DOMAIN Handed /\ Handed[n] = rawenv[n])

\* C4: with ignore_missing = false, a run whose candidates include a failing
\* directive (unresolvable aws_sm secret, or unknown method) never invokes
\* the launcher, never finishes the loop, and exits with a non-zero status,
\* whatever the order in which the candidates are taken.
FailingRun ==
  \E n \in DOMAIN rawenv : Candidate(n) /\ Failing(rawenv[n])

C4_FailingRunExits ==
  (~application.ignore_missing /\ FailingRun) =>
    /\ [](/\ launches = 0
          /\ pc # "launched"
          /\ pc = "exited" => exit_code = 1)
    /\ <>(pc = "exited")

\* the run has exited on a failing secret while another candidate was still
\* waiting to be taken
C4_Witness ==
  /\ pc = "exited"
  /\ exit_code = 1
  /\ ~application.ignore_missing
  /\ DOMAIN variables # {}
  /\ \E n \in DOMAIN rawenv :
       Candidate(n) /\ rawenv[n] = ValSecretT /\ calls[n] = 1

\* C5: with ignore_missing = true, a failing candidate never ends the run:
\* the only exit is the launcher's failure, the launcher is reached, no entry
\* of the handed environment was produced from the failing variable, and the
\* handed environment is the one the run produces for the raw environment
\* without that variable.
C5_IgnoredFailureIsDropped ==
  application.ignore_missing =>
    /\ [](/\ pc = "exited" => (Launched /\ exit_code = 101)
          /\ Launched =>
               \A f \in DOMAIN rawenv :
                 (Candidate(f) /\ Failing(rawenv[f])) =>
                   /\ EntriesOf(f) = {}
                   /\ Handed = Resolved(remove(rawenv, f)))
    /\ <>Launched

\* the launcher was handed an environment with an entry of another variable
\* after the lookup of a secret had failed
C5_Witness ==
  /\ application.ignore_missing
  /\ Launched
  /\ DOMAIN Handed # {}
  /\ \E f \in DOMAIN rawenv :
       Candidate(f) /\ rawenv[f] = ValSecretT /\ calls[f] = 1

\* C6 as stated: with a prefix set, a candidate with the prefix whose
\* directive resolves is handed over under its name less one leading
\* occurrence of the prefix, and its original name is absent from the handed
\* environment; without a prefix it is handed over under its own name.
C6_Original ==
  Launched =>
    \A n \in DOMAIN rawenv :
      (Candidate(n) /\ Resolves(rawenv[n])) =>
        IF PrefixSet
          THEN /\ \E m \in DOMAIN Handed :
                    /\ application.env_prefix[1] \o m = n
                    /\ Handed[m] = ResolvedValue(rawenv[n])
               /\ n \notin DOMAIN Handed
          ELSE n \in DOMAIN Handed /\ Handed[n] = ResolvedValue(rawenv[n])

\* C6 amended: as above, but the original name is absent exactly when the
\* prefix is not empty and the variable named prefix + original name is not
\* itself a candidate whose directive resolves (whose value the original
\* name then holds); no entry under the original name is produced from the
\* variable itself unless the prefix is empty.
C6_StripOnce ==
  Launched =>
    \A n \in DOMAIN rawenv :
      (Candidate(n) /\ Resolves(rawenv[n])) =>
        IF PrefixSet
          THEN LET prefix == application.env_prefix[1]
                   longer == prefix \o n
               IN  /\ \E m \in DOMAIN Handed :
                        /\ prefix \o m = n
                        /\ Handed[m] = ResolvedValue(rawenv[n])
                        /\ origin[m] = n
                   /\ n \in DOMAIN Handed <=>
                        \/ prefix = <<>>
                        \/ /\ Candidate(longer)
                           /\ Resolves(rawenv[longer])
                   /\ (n \in DOMAIN Handed /\ prefix # <<>>) =>
                        /\ origin[n] = longer
                        /\ Handed[n] = ResolvedValue(rawenv[longer])
          ELSE /\ n \in DOMAIN Handed
               /\ Handed[n] = ResolvedValue(rawenv[n])
               /\ origin[n] = n

\* A_A_X was handed over as A_X, and nothing is handed over as A_A_X
C6_Witness ==
  /\ Launched
  /\ application.env_prefix = Some(PrefixA)
  /\ Candidate(NameAAX)
  /\ rawenv[NameAAX] = ValSecretS
  /\ NameAX \in DOMAIN Handed
  /\ Handed[NameAX] = SecretValue
  /\ NameAAX \notin DOMAIN Handed

\* C7: a candidate with value `value::X` (X everything after the first "::")
\* is inserted with the value X, and no backend request is ever sent for it;
\* a method that equals "value" only up to case or surrounding blanks does not
\* take this path: nothing is inserted for it.
C7_ValueDirective ==
  \A n \in DOMAIN rawenv :
    /\ (Candidate(n) /\ IsValueDirective(rawenv[n])) =>
         /\ calls[n] = 0
         /\ Processed(n) =>
              /\ OutName(n) \in DOMAIN passed_variables
              /\ passed_variables[OutName(n)] = ValueOf(rawenv[n])
              /\ origin[OutName(n)] = n
         /\ Launched => Handed[OutName(n)] = ValueOf(rawenv[n])
    /\ (Candidate(n) /\ rawenv[n] \in {ValUpper, ValSpace}) =>
         (calls[n] = 0 /\ EntriesOf(n) = {})

\* `value::b::c` was handed over as `b::c`
C7_Witness ==
  /\ Launched
  /\ \E n \in DOMAIN rawenv :
       /\ Candidate(n)
       /\ rawenv[n] = ValValueTwice
       /\ Handed[OutName(n)] = <<"b", ":", ":", "c">>
       /\ calls[n] = 0


\* the variables for which get_secret has been called
LookedUp == {n \in DOMAIN calls : calls[n] > 0}

\* C8: the SdkConfig and the client are built at most once in a run: not at
\* all before the first aws_sm lookup, both during the first lookup, and
\* every lookup sends with that one client, which is the stored client as
\* soon as the first lookup has returned, whether it succeeded or failed.
C8_ClientBuiltOnce ==
  /\ configBuilds <= 1
  /\ clientBuilds <= 1
  /\ LookedUp = {} =>
       /\ configBuilds = 0
       /\ clientBuilds = 0
       /\ amazon = [config |-> FALSE, secrets_client |-> 0]
  /\ LookedUp # {} =>
       /\ configBuilds = 1
       /\ clientBuilds = 1
       /\ amazon.config
       /\ clientsUsed = {1}
       /\ inflight = {} => amazon.secrets_client = 1

\* a second lookup was sent after the first one had failed and been ignored
C8_Witness ==
  /\ application.ignore_missing
  /\ clientBuilds = 1
  /\ \E f, n \in LookedUp :
       /\ f # n
       /\ rawenv[f] = ValSecretT
       /\ Processed(f)
       /\ \E r \in inflight : r.key = n /\ ~r.fresh

\* C9: at most one backend request is outstanding, main is suspended while
\* one is (no other variable is taken, nothing is inserted), no variable is
\* sent more than one request, a processed aws_sm candidate was sent exactly
\* one and every other variable none, and no request is sent after the exit.
C9_Sequential ==
  /\ [](/\ Cardinality(inflight) <= 1
        /\ inflight # {} <=> pc = "await"
        /\ \A n \in DOMAIN rawenv :
             /\ calls[n] <= 1
             /\ calls[n] = 1 =>
                  (Candidate(n) /\ IsSecretDirective(rawenv[n]))
             /\ (Processed(n) /\ IsSecretDirective(rawenv[n])) => calls[n] = 1)
  /\ [][/\ inflight # {} =>
             (variables' = variables /\ calls' = calls /\ inflight' = {})
        /\ pc = "exited" => (calls' = calls /\ inflight' = inflight)]_vars

\* two aws_sm candidates have been processed, one request each, the first
\* one failed
C9_Witness ==
  /\ Launched
  /\ \E f, n \in DOMAIN rawenv :
       /\ f # n
       /\ rawenv[f] = ValSecretT
       /\ rawenv[n] = ValSecretS
       /\ calls[f] = 1
       /\ calls[n] = 1

\* C10: every run ends, either exited with a non-zero status and the
\* launcher never invoked, or with the launcher invoked exactly once, after
\* every candidate has been processed and with the complete resolved
\* environment; an exit before the launch happens only for a failing
\* directive with ignore_missing = false (never for a `pass` name that is
\* absent), and a launch failure exits with a non-zero status whatever
\* ignore_missing is.
C10_Outcomes ==
  /\ [](/\ launches <= 1
        /\ pc = "launched" => Launched
        /\ pc = "exited" => exit_code # 0
        /\ Launched =>
             /\ Terminated
             /\ variables = EmptyMap
             /\ inflight = {}
             /\ \A n \in DOMAIN rawenv : Candidate(n) => Processed(n)
             /\ Handed = passed_variables
             /\ Handed = Resolved(rawenv)
        /\ (pc = "exited" /\ ~Launched) =>
             (exit_code = 1 /\ ~application.ignore_missing /\ FailingRun)
        /\ (pc = "exited" /\ Launched) => exit_code = 101)
  /\ [][Terminated => UNCHANGED vars]_vars
  /\ <>Terminated

\* the launch failed although ignore_missing is set, in a run whose `pass`
\* names a variable that the raw environment does not have
C10_Witness ==
  /\ pc = "exited"
  /\ Launched
  /\ application.ignore_missing
  /\ \E i \in 1..Len(application.pass) :
       application.pass[i] \notin DOMAIN rawenv
  /\ DOMAIN Handed # {}

====
